---- MODULE Spec2Model ----
(***************************************************************************)
(* CAtomic: the process-wide unique-identifier counter of swift-markdown.  *)
(*                                                                         *)
(*   static _Atomic uint64_t _cmarkup_unique_id = 0;                       *)
(*   uint64_t _cmarkup_current_unique_id(void)                             *)
(*       { return _cmarkup_unique_id; }                                    *)
(*   uint64_t _cmarkup_increment_and_get_unique_id(void)                   *)
(*       { return ++_cmarkup_unique_id; }                                  *)
(*                                                                         *)
(* Threads call the two functions concurrently.  A call is three events:   *)
(* its invocation, the one access the body makes to the _Atomic object (a  *)
(* seq_cst load, or a seq_cst read-modify-write for ++), and its return.   *)
(* The history of completed calls, with the instants of invocation and     *)
(* return and the place of the access among the increments, is kept so     *)
(* that statements about real-time order can be made.                      *)
(***************************************************************************)
EXTENDS Naturals, FiniteSets, Sequences, TLC

(***************************************************************************)
(* Bounds of the model.                                                    *)
(***************************************************************************)
NThreads == 2
MaxCalls == 3

Threads == 1..NThreads

(***************************************************************************)
(* uint64_t.  A value is held as NumLimbs limbs of 16 bits, least          *)
(* significant first, so that the full 64-bit width and its wraparound     *)
(* are kept (2^64 itself is not a number the checker can hold).            *)
(***************************************************************************)
NumLimbs == 4
LimbBase == 65536

Limbs == 1..NumLimbs

U64Zero == [i \in Limbs |-> 0]

U64Max == [i \in Limbs |-> LimbBase - 1]

\* The uint64_t whose value is the natural number n (n < LimbBase^2 here).
U64FromNat(n) ==
    [i \in Limbs |-> IF i = 1 THEN n % LimbBase
                     ELSE IF i = 2 THEN (n \div LimbBase) % LimbBase
                     ELSE 0]

\* The uint64_t 2^64 - 1 - k, for k < LimbBase.
U64NearMax(k) == [i \in Limbs |-> IF i = 1 THEN LimbBase - 1 - k ELSE LimbBase - 1]

\* a < b as unsigned 64-bit integers: decided at the most significant limb
\* in which they differ.
U64Less(a, b) ==
    \E i \in Limbs :
        /\ a[i] < b[i]
        /\ \A j \in Limbs : j > i => a[j] = b[j]

U64LessEq(a, b) == a = b \/ U64Less(a, b)

\* v + 1 from limb i on, the carry running upwards; a carry out of the last
\* limb is dropped (unsigned arithmetic is modulo 2^64).
RECURSIVE U64Carry(_, _)
U64Carry(v, i) ==
    IF i > NumLimbs THEN v
    ELSE IF v[i] = LimbBase - 1 THEN U64Carry([v EXCEPT ![i] = 0], i + 1)
    ELSE [v EXCEPT ![i] = v[i] + 1]

\* Mutation: a counter of 32 bits, the carry stopping after two limbs.
U64Add1_32bit(v) ==
    IF v[1] < LimbBase - 1 THEN [v EXCEPT ![1] = v[1] + 1]
    ELSE IF v[2] < LimbBase - 1 THEN [v EXCEPT ![1] = 0, ![2] = v[2] + 1]
    ELSE [v EXCEPT ![1] = 0, ![2] = 0]

\* Mutation: an increment that saturates at the maximum instead of wrapping.
U64Add1_Saturating(v) == IF v = U64Max THEN v ELSE U64Carry(v, 1)

\* v + 1 modulo 2^64.
U64Add1(v) == U64Carry(v, 1)

(***************************************************************************)
(* State.                                                                  *)
(*   _cmarkup_unique_id  the counter                                       *)
(*   pc[t]     where thread t is: "idle" (in no call), "current" or        *)
(*             "increment" (called, the access not yet made),              *)
(*             "ret_current" or "ret_increment" (access made, the value    *)
(*             in the return register, not yet returned)                   *)
(*   ret[t]    the return register of thread t                             *)
(*   inv[t]    the instant at which thread t's call in progress was        *)
(*             invoked                                                     *)
(*   pos[t]    the number of increments that had taken effect when the     *)
(*             call in progress of thread t had made its access (its own   *)
(*             included): the place of the access in the order in which    *)
(*             the accesses to the atomic object happened                  *)
(*   steps     the number of increments that have taken effect             *)
(*   clock     the instant of the next invocation or return                *)
(*   held[t]   the values the counter has held since thread t's call of    *)
(*             current_unique_id, if it is in one, was invoked             *)
(*   history   the completed calls                                         *)
(***************************************************************************)
VARIABLES _cmarkup_unique_id, pc, ret, inv, pos, steps, clock, held, history

vars == <<_cmarkup_unique_id, pc, ret, inv, pos, steps, clock, held, history>>

\* held, once the counter has taken the value v: every call of
\* current_unique_id in progress has seen the counter hold v.
HeldWith(v) ==
    [u \in Threads |->
        IF pc[u] \in {"current", "ret_current"} THEN held[u] \cup {v} ELSE held[u]]

\* Calls invoked so far.
NumCalls == Cardinality(history) + Cardinality({t \in Threads : pc[t] # "idle"})

\* A thread calls one of the two functions.
Invoke(t, op) ==
    /\ pc[t] = "idle"
    /\ NumCalls < MaxCalls
    /\ pc' = [pc EXCEPT ![t] = op]
    /\ inv' = [inv EXCEPT ![t] = clock]
    /\ held' = [held EXCEPT ![t] = IF op = "current" THEN {_cmarkup_unique_id} ELSE {}]
    /\ clock' = clock + 1
    /\ UNCHANGED <<_cmarkup_unique_id, ret, pos, steps, history>>

InvokeCurrent(t) == Invoke(t, "current")

InvokeIncrement(t) == Invoke(t, "increment")

\* Mutation: the read also advances the counter.
current_unique_id_Advancing(t) ==
    /\ pc[t] = "current"
    /\ _cmarkup_unique_id' = U64Add1(_cmarkup_unique_id)
    /\ ret' = [ret EXCEPT ![t] = _cmarkup_unique_id]
    /\ pc' = [pc EXCEPT ![t] = "ret_current"]
    /\ pos' = [pos EXCEPT ![t] = steps + 1]
    /\ steps' = steps + 1
    /\ held' = HeldWith(_cmarkup_unique_id')
    /\ UNCHANGED <<inv, clock, history>>

\* Mutation: the read answers with the value the thread saw last.
current_unique_id_Cached(t) ==
    /\ pc[t] = "current"
    /\ pc' = [pc EXCEPT ![t] = "ret_current"]
    /\ pos' = [pos EXCEPT ![t] = steps]
    /\ UNCHANGED <<_cmarkup_unique_id, ret, inv, steps, clock, held, history>>

\* return _cmarkup_unique_id;  -- one atomic load.
_cmarkup_current_unique_id(t) ==
    /\ pc[t] = "current"
    /\ ret' = [ret EXCEPT ![t] = _cmarkup_unique_id]
    /\ pc' = [pc EXCEPT ![t] = "ret_current"]
    /\ pos' = [pos EXCEPT ![t] = steps]
    /\ UNCHANGED <<_cmarkup_unique_id, inv, steps, clock, held, history>>

\* Mutation: x++ for ++x, the old value returned.
increment_and_get_PostIncrement(t) ==
    /\ pc[t] = "increment"
    /\ _cmarkup_unique_id' = U64Add1(_cmarkup_unique_id)
    /\ ret' = [ret EXCEPT ![t] = _cmarkup_unique_id]
    /\ pc' = [pc EXCEPT ![t] = "ret_increment"]
    /\ pos' = [pos EXCEPT ![t] = steps + 1]
    /\ steps' = steps + 1
    /\ held' = HeldWith(_cmarkup_unique_id')
    /\ UNCHANGED <<inv, clock, history>>

\* Mutation: a read-modify-write that is not atomic: the value written back
\* is one more than the value the thread read at its previous access.
increment_and_get_LostUpdate(t) ==
    /\ pc[t] = "increment"
    /\ _cmarkup_unique_id' = U64Add1(ret[t])
    /\ ret' = [ret EXCEPT ![t] = U64Add1(ret[t])]
    /\ pc' = [pc EXCEPT ![t] = "ret_increment"]
    /\ pos' = [pos EXCEPT ![t] = steps + 1]
    /\ steps' = steps + 1
    /\ held' = HeldWith(_cmarkup_unique_id')
    /\ UNCHANGED <<inv, clock, history>>

\* Mutation: the increment made under a lock that a thread holds from its
\* access to its return, so that the access waits for the other threads.
increment_and_get_Locked(t) ==
    /\ pc[t] = "increment"
    /\ \A u \in Threads \ {t} : pc[u] # "ret_increment"
    /\ _cmarkup_unique_id' = U64Add1(_cmarkup_unique_id)
    /\ ret' = [ret EXCEPT ![t] = U64Add1(_cmarkup_unique_id)]
    /\ pc' = [pc EXCEPT ![t] = "ret_increment"]
    /\ pos' = [pos EXCEPT ![t] = steps + 1]
    /\ steps' = steps + 1
    /\ held' = HeldWith(_cmarkup_unique_id')
    /\ UNCHANGED <<inv, clock, history>>

\* return ++_cmarkup_unique_id;  -- one atomic read-modify-write; the value
\* of the expression is the value written.
_cmarkup_increment_and_get_unique_id(t) ==
    /\ pc[t] = "increment"
    /\ _cmarkup_unique_id' = U64Add1(_cmarkup_unique_id)
    /\ ret' = [ret EXCEPT ![t] = U64Add1(_cmarkup_unique_id)]
    /\ pc' = [pc EXCEPT ![t] = "ret_increment"]
    /\ pos' = [pos EXCEPT ![t] = steps + 1]
    /\ steps' = steps + 1
    /\ held' = HeldWith(_cmarkup_unique_id')
    /\ UNCHANGED <<inv, clock, history>>

\* The call returns the value in the return register to its caller.
Return(t) ==
    /\ pc[t] \in {"ret_current", "ret_increment"}
    /\ history' = history \cup
           {[thread |-> t,
             op |-> IF pc[t] = "ret_current" THEN "current" ELSE "increment",
             inv |-> inv[t], res |-> clock, pos |-> pos[t], val |-> ret[t],
             held |-> held[t]]}
    /\ pc' = [pc EXCEPT ![t] = "idle"]
    /\ held' = [held EXCEPT ![t] = {}]
    /\ clock' = clock + 1
    /\ UNCHANGED <<_cmarkup_unique_id, ret, inv, pos, steps>>

\* Mutation: the counter initialised to 1.
Init_StartsAtOne ==
    /\ _cmarkup_unique_id = U64FromNat(1)
    /\ pc = [t \in Threads |-> "idle"]
    /\ ret = [t \in Threads |-> U64Zero]
    /\ inv = [t \in Threads |-> 0]
    /\ pos = [t \in Threads |-> 0]
    /\ steps = 0
    /\ clock = 0
    /\ held = [t \in Threads |-> {}]
    /\ history = {}

\* static _Atomic uint64_t _cmarkup_unique_id = 0;  no thread is in a call.
Init ==
    /\ _cmarkup_unique_id = U64Zero
    /\ pc = [t \in Threads |-> "idle"]
    /\ ret = [t \in Threads |-> U64Zero]
    /\ inv = [t \in Threads |-> 0]
    /\ pos = [t \in Threads |-> 0]
    /\ steps = 0
    /\ clock = 0
    /\ held = [t \in Threads |-> {}]
    /\ history = {}

\* The process late in its life, at most MaxCalls increments before the
\* counter wraps; the calls made until then are not in the history.
InitWrap ==
    /\ _cmarkup_unique_id \in {U64NearMax(k) : k \in 0..(MaxCalls - 1)}
    /\ pc = [t \in Threads |-> "idle"]
    /\ ret = [t \in Threads |-> U64Zero]
    /\ inv = [t \in Threads |-> 0]
    /\ pos = [t \in Threads |-> 0]
    /\ steps = 0
    /\ clock = 0
    /\ held = [t \in Threads |-> {}]
    /\ history = {}

Next ==
    \E t \in Threads :
        \/ InvokeCurrent(t)
        \/ InvokeIncrement(t)
        \/ _cmarkup_current_unique_id(t)
        \/ _cmarkup_increment_and_get_unique_id(t)
        \/ Return(t)

Spec == Init /\ [][Next]_vars

SpecWrap == InitWrap /\ [][Next]_vars

\* What thread t does inside a call: the access, then the return.
ThreadRuns(t) ==
    \/ _cmarkup_current_unique_id(t)
    \/ _cmarkup_increment_and_get_unique_id(t)
    \/ Return(t)

\* Every thread that is inside a call keeps being scheduled.
SpecFair == Spec /\ \A t \in Threads : WF_vars(ThreadRuns(t))

(***************************************************************************)
(* The calls, as the properties below speak of them.                       *)
(***************************************************************************)

\* The call thread t is in, as a record like those of the history; it has
\* not returned, so its return lies at the clock or later.
InProgress(t) ==
    [thread |-> t,
     op |-> IF pc[t] \in {"current", "ret_current"} THEN "current" ELSE "increment",
     inv |-> inv[t], res |-> clock, pos |-> pos[t], val |-> ret[t],
     held |-> held[t]]

\* Every call invoked so far (of one not yet answered only thread, op and
\* inv mean anything).
Invoked == history \cup {InProgress(t) : t \in {u \in Threads : pc[u] # "idle"}}

\* The calls that have made their access and so hold their result.
Answered ==
    history \cup
    {InProgress(t) : t \in {u \in Threads : pc[u] \in {"ret_current", "ret_increment"}}}

Increments == {c \in Answered : c.op = "increment"}

CompletedIncrements == {c \in history : c.op = "increment"}

CompletedCurrents == {c \in history : c.op = "current"}

\* Call a returned before call b was invoked.
Precedes(a, b) == a.res < b.inv

\* Calls a and b were in progress at a common instant.
Overlap(a, b) == ~Precedes(a, b) /\ ~Precedes(b, a)

\* w = v + 1 modulo 2^64, said limb by limb (independently of U64Add1).
U64IsSuccessor(v, w) ==
    \/ v = U64Max /\ w = U64Zero
    \/ \E i \in Limbs :
           /\ v[i] < LimbBase - 1
           /\ w[i] = v[i] + 1
           /\ \A j \in Limbs : j < i => (v[j] = LimbBase - 1 /\ w[j] = 0)
           /\ \A j \in Limbs : j > i => w[j] = v[j]

(***************************************************************************)
(* C1.  From a fresh counter, when N >= 1 threads have each called         *)
(* increment_and_get_unique_id exactly once (and no other such call has    *)
(* been made), whatever the interleaving was, the N returned values are    *)
(* pairwise distinct and are together exactly {1, ..., N}.                 *)
(***************************************************************************)
C1_OneCallEach ==
    /\ CompletedIncrements # {}
    /\ \A t \in Threads : pc[t] \notin {"increment", "ret_increment"}
    /\ \A a, b \in CompletedIncrements : a.thread = b.thread => a = b

C1_ConcurrentCallsReturnOneToN ==
    C1_OneCallEach =>
        LET N == Cardinality({c.thread : c \in CompletedIncrements})
        IN  /\ {c.val : c \in CompletedIncrements} = {U64FromNat(k) : k \in 1..N}
            /\ \A a, b \in CompletedIncrements : a # b => a.val # b.val

\* Every thread has made its one call, and two of the calls overlapped.
C1_Witness ==
    /\ C1_OneCallEach
    /\ {c.thread : c \in CompletedIncrements} = Threads
    /\ \E a, b \in CompletedIncrements : a # b /\ Overlap(a, b)

(***************************************************************************)
(* C2.  No two calls of increment_and_get_unique_id, overlapping in time   *)
(* or not, by the same thread or not, obtain the same value (the counter   *)
(* not having wrapped around).                                             *)
(***************************************************************************)
C2_NoTwoIncrementsReturnTheSameValue ==
    \A a, b \in Increments : a # b => a.val # b.val

\* Two overlapping calls and a third, not overlapping the first, have
\* each obtained a value.
C2_Witness ==
    \E a, b, c \in Increments :
        /\ a # b /\ Overlap(a, b)
        /\ Precedes(a, c)

(***************************************************************************)
(* C3.  No increment is lost: the counter equals the number of increments  *)
(* that have taken effect, each of them belongs to a call holding its      *)
(* result, and no result is ahead of the counter (no thread is between     *)
(* reading the counter and writing it back).                               *)
(***************************************************************************)
C3_NoIncrementIsLost ==
    /\ _cmarkup_unique_id = U64FromNat(steps)
    /\ steps = Cardinality(Increments)
    /\ \A c \in Increments : U64LessEq(c.val, _cmarkup_unique_id)

\* Two increments have taken effect while a third call is between its
\* invocation and its access.
C3_Witness ==
    /\ steps >= 2
    /\ \E t, u \in Threads : pc[t] = "ret_increment" /\ pc[u] = "increment"

(***************************************************************************)
(* C4.  The increments are linearizable: in the order in which they took   *)
(* effect (a total order, places 1, 2, ..., n) the k-th returns k, and a   *)
(* call that returned before another was invoked comes before it in that   *)
(* order and returns a strictly smaller value.                             *)
(***************************************************************************)
C4_IncrementsLinearizable ==
    /\ {c.pos : c \in Increments} = 1..Cardinality(Increments)
    /\ \A c \in Increments : c.val = U64FromNat(c.pos)
    /\ \A a \in CompletedIncrements : \A b \in Increments :
           Precedes(a, b) => (a.pos < b.pos /\ U64Less(a.val, b.val))

\* One call returned before another was invoked, and of two overlapping
\* calls the one invoked later took effect first.
C4_Witness ==
    /\ \E a, b \in CompletedIncrements : Precedes(a, b)
    /\ \E c, d \in CompletedIncrements :
           Overlap(c, d) /\ c.inv < d.inv /\ d.pos < c.pos

(***************************************************************************)
(* C5, as stated.  The value a call of increment_and_get_unique_id returns *)
(* is strictly greater than every value returned, by either function and   *)
(* any thread, before it returns (the counter not having wrapped around).  *)
(***************************************************************************)
C5_Original_GreaterThanAllReturnedEarlier ==
    \A b \in CompletedIncrements : \A a \in history :
        a.res < b.res => U64Less(a.val, b.val)

(***************************************************************************)
(* C5, amended.  The value a call of increment_and_get_unique_id obtains   *)
(* is strictly greater than every value returned, by either function and   *)
(* any thread, before that call was invoked (the counter not having        *)
(* wrapped around).                                                        *)
(***************************************************************************)
C5_GreaterThanAllReturnedBeforeInvocation ==
    \A b \in Increments : \A a \in history :
        Precedes(a, b) => U64Less(a.val, b.val)

\* An increment was invoked after a read that returned a value other than
\* 0 and after another increment had returned.
C5_Witness ==
    \E b \in Increments :
        /\ \E a \in CompletedCurrents : Precedes(a, b) /\ a.val # U64Zero
        /\ \E a \in CompletedIncrements : Precedes(a, b)

(***************************************************************************)
(* C6.  The counter never decreases: every step leaves it greater than or  *)
(* equal to what it was, except the one step that takes it from 2^64 - 1   *)
(* to 0.                                                                   *)
(***************************************************************************)
C6_CounterNonDecreasingButForTheWrap ==
    [][\/ U64LessEq(_cmarkup_unique_id, _cmarkup_unique_id')
       \/ (_cmarkup_unique_id = U64Max /\ _cmarkup_unique_id' = U64Zero)]_vars

\* The counter has risen to 2^64 - 1 in an ordinary step and then wrapped.
C6_Witness ==
    /\ _cmarkup_unique_id = U64Zero
    /\ steps >= 2

\* Thread a's call b follows its call a with no increment of that thread
\* between them.
PreviousIncrementOf(a, b) ==
    /\ a.thread = b.thread
    /\ Precedes(a, b)
    /\ ~\E c \in Increments :
           c.thread = a.thread /\ Precedes(a, c) /\ Precedes(c, b)

(***************************************************************************)
(* C7, as stated.  Of the calls of increment_and_get_unique_id one thread  *)
(* makes one after the other, each returns exactly one more (in uint64_t   *)
(* arithmetic) than that thread's previous call.                           *)
(***************************************************************************)
C7_Original_OneMoreThanThreadsPreviousCall ==
    \A a \in CompletedIncrements : \A b \in Increments :
        PreviousIncrementOf(a, b) => U64IsSuccessor(a.val, b.val)

(***************************************************************************)
(* C7, amended.  Of the calls of increment_and_get_unique_id one thread    *)
(* makes one after the other, each returns exactly one more (in uint64_t   *)
(* arithmetic: 0 after 2^64 - 1) than that thread's previous call,         *)
(* provided no increment of another thread took effect between the two.    *)
(***************************************************************************)
C7_OneMoreWhenNoOtherThreadIncrements ==
    \A a \in CompletedIncrements : \A b \in Increments :
        (/\ PreviousIncrementOf(a, b)
         /\ ~\E c \in Increments :
                c.thread # a.thread /\ a.pos < c.pos /\ c.pos < b.pos)
        => U64IsSuccessor(a.val, b.val)

\* A thread has made two calls in a row across the 64-bit boundary, with no
\* increment between them, while another thread has made a call as well.
C7_Witness ==
    \E a, b \in CompletedIncrements :
        /\ PreviousIncrementOf(a, b)
        /\ b.pos = a.pos + 1
        /\ a.val = U64Max
        /\ \E c \in Answered : c.thread # a.thread

\* No call of increment_and_get_unique_id was in progress at any instant
\* of call c.
NoIncrementDuring(c) ==
    \A d \in Invoked : d.op = "increment" => (Precedes(d, c) \/ Precedes(c, d))

(***************************************************************************)
(* C8.  From a fresh counter, a call of current_unique_id during which no  *)
(* call of increment_and_get_unique_id is in progress returns exactly K,   *)
(* the number of calls of increment_and_get_unique_id made before it.      *)
(***************************************************************************)
C8_CurrentReturnsTheNumberOfIncrements ==
    \A c \in CompletedCurrents :
        NoIncrementDuring(c) =>
            c.val = U64FromNat(Cardinality({d \in CompletedIncrements : Precedes(d, c)}))

\* A read that no increment overlapped has returned 2, after two
\* increments made by different threads.
C8_Witness ==
    \E c \in CompletedCurrents :
        /\ NoIncrementDuring(c)
        /\ c.val = U64FromNat(2)
        /\ \E a, b \in CompletedIncrements :
               a.thread # b.thread /\ Precedes(a, c) /\ Precedes(b, c)

(***************************************************************************)
(* C9.  With the counter at 2^64 - 1, the access of a call of              *)
(* increment_and_get_unique_id sets the counter to 0 and leaves 0 as the   *)
(* call's result, the thread going on to its ordinary return; and a call   *)
(* holding its result, whatever the result is, can always return it.       *)
(***************************************************************************)
C9_IncrementAtMaxWrapsToZero ==
    /\ [][\A t \in Threads :
             (/\ pc[t] = "increment"
              /\ pc'[t] # "increment"
              /\ _cmarkup_unique_id = U64Max)
             => /\ _cmarkup_unique_id' = U64Zero
                /\ ret'[t] = U64Zero
                /\ pc'[t] = "ret_increment"]_vars
    /\ [](\A t \in Threads : pc[t] = "ret_increment" => ENABLED Return(t))

\* A call that found the counter at 2^64 - 1 has returned 0.
C9_Witness == \E c \in CompletedIncrements : c.val = U64Zero

(***************************************************************************)
(* C10.  The access of a call of current_unique_id leaves the counter as   *)
(* it was, in every state and whatever the other threads are doing, and    *)
(* changes nothing of any other thread.                                    *)
(***************************************************************************)
C10_CurrentLeavesTheCounterUnchanged ==
    [][\A t \in Threads :
          (pc[t] = "current" /\ pc'[t] = "ret_current")
          => /\ _cmarkup_unique_id' = _cmarkup_unique_id
             /\ \A u \in Threads \ {t} : pc'[u] = pc[u] /\ ret'[u] = ret[u]]_vars

\* A read has been made of a counter that is not 0, while another thread
\* is about to increment it.
C10_Witness ==
    \E t, u \in Threads :
        /\ pc[t] = "ret_current"
        /\ ret[t] # U64Zero
        /\ pc[u] = "increment"

\* The calls of current_unique_id that have made their access.
Currents == {c \in Answered : c.op = "current"}

(***************************************************************************)
(* C11.  The value a call of current_unique_id returns is one the counter  *)
(* held at some instant between the call's invocation and its return,      *)
(* whatever increments other threads make meanwhile: never a value from    *)
(* before the invocation only, nor one the counter has yet to take.        *)
(***************************************************************************)
C11_CurrentReturnsAValueHeldDuringTheCall ==
    \A c \in Currents : c.val \in c.held

\* A read has returned the second of three values the counter held during
\* the call.
C11_Witness ==
    \E c \in CompletedCurrents :
        /\ c.held = {U64Zero, U64FromNat(1), U64FromNat(2)}
        /\ c.val = U64FromNat(1)

(***************************************************************************)
(* C12.  From a fresh start, every call of current_unique_id whose read is *)
(* made before any increment has taken effect returns 0, however many      *)
(* such calls there are and whichever threads make them.                   *)
(***************************************************************************)
C12_CurrentReturnsZeroBeforeAnyIncrement ==
    \A c \in Currents : c.pos = 0 => c.val = U64Zero

\* Two threads have each read 0 while an increment, invoked before either
\* returned, has yet to take effect.
C12_Witness ==
    \E a, b \in CompletedCurrents :
        /\ a.thread # b.thread
        /\ a.pos = 0 /\ b.pos = 0
        /\ steps = 0
        /\ \E d \in Invoked : d.op = "increment"

(***************************************************************************)
(* C13.  The first call of increment_and_get_unique_id, that is the first  *)
(* to take effect, and so any one that no other precedes or overlaps,      *)
(* returns 1 (the value after the increment, not 0), however many calls    *)
(* of current_unique_id came before it.                                    *)
(***************************************************************************)
C13_FirstIncrementReturnsOne ==
    /\ \A c \in Increments : c.pos = 1 => c.val = U64FromNat(1)
    /\ \A c \in Increments :
           (\A d \in Invoked : (d.op = "increment" /\ d # c) => Precedes(c, d))
           => c.val = U64FromNat(1)

\* The first increment has returned, after reads by two different threads.
C13_Witness ==
    \E c \in CompletedIncrements :
        /\ c.pos = 1
        /\ \E a, b \in CompletedCurrents :
               a.thread # b.thread /\ Precedes(a, c) /\ Precedes(b, c)

(***************************************************************************)
(* C14.  Two calls of current_unique_id between whose reads no increment   *)
(* takes effect return the same value.                                     *)
(***************************************************************************)
C14_ReadsWithNoIncrementBetweenAgree ==
    \A a, b \in Currents : a.pos = b.pos => a.val = b.val

\* A thread has read twice in succession, after an increment had taken
\* effect and with none between the reads.
C14_Witness ==
    \E a, b \in CompletedCurrents :
        /\ a.thread = b.thread
        /\ Precedes(a, b)
        /\ a.pos = b.pos
        /\ a.pos >= 1

(***************************************************************************)
(* C16.  Reads are monotonic: of two calls of current_unique_id, by the    *)
(* same thread or not, the first of which returned before the second was   *)
(* invoked, the second returns a value greater than or equal to the        *)
(* first's, whatever increments are made meanwhile (the counter not        *)
(* having wrapped around).                                                 *)
(***************************************************************************)
C16_ReadsAreMonotonic ==
    \A a \in CompletedCurrents : \A b \in Currents :
        Precedes(a, b) => U64LessEq(a.val, b.val)

\* Of two reads by different threads, one after the other, the later
\* returned a greater value, and an increment overlapped the earlier.
C16_Witness ==
    \E a, b \in CompletedCurrents :
        /\ a.thread # b.thread
        /\ Precedes(a, b)
        /\ U64Less(a.val, b.val)
        /\ \E d \in Increments : Overlap(d, a)

\* The calls of increment_and_get_unique_id that returned before call c
\* was invoked.
IncrementsReturnedBefore(c) == {d \in CompletedIncrements : Precedes(d, c)}

\* The calls of increment_and_get_unique_id invoked before call c returned
\* (for a call c in progress: invoked so far).
IncrementsInvokedBefore(c) == {d \in Invoked : d.op = "increment" /\ d.inv < c.res}

(***************************************************************************)
(* C17.  The value v a call of current_unique_id returns is at least the   *)
(* number of calls of increment_and_get_unique_id that returned before it  *)
(* was invoked, and at most the number of such calls invoked before it     *)
(* returned; in particular v >= r for every increment that returned r      *)
(* before the read was invoked (the counter not having wrapped around).    *)
(***************************************************************************)
C17_ReadBoundedByTheIncrementsAroundIt ==
    \A c \in Currents :
        /\ U64LessEq(U64FromNat(Cardinality(IncrementsReturnedBefore(c))), c.val)
        /\ U64LessEq(c.val, U64FromNat(Cardinality(IncrementsInvokedBefore(c))))
        /\ \A d \in IncrementsReturnedBefore(c) : U64LessEq(d.val, c.val)

\* A read has returned 1, strictly between its bounds: no increment had
\* returned before it was invoked, two were invoked before it returned.
C17_Witness ==
    \E c \in CompletedCurrents :
        /\ c.val = U64FromNat(1)
        /\ IncrementsReturnedBefore(c) = {}
        /\ Cardinality(IncrementsInvokedBefore(c)) = 2

\* The positions a thread passes through in a call, in order: one access
\* between the invocation and the return.
CallOrder ==
    {<<"idle", "current">>, <<"current", "ret_current">>, <<"ret_current", "idle">>,
     <<"idle", "increment">>, <<"increment", "ret_increment">>,
     <<"ret_increment", "idle">>}

(***************************************************************************)
(* C15.  Both functions are non-blocking.  A call makes exactly one access *)
(* to the counter (the counter changing only in the access of an           *)
(* increment); the next step of a thread inside a call is enabled          *)
(* whatever the other threads are doing; and so, a thread inside a call    *)
(* being scheduled, every call invoked returns (a thread is outside any    *)
(* call again and again: no call lasts for ever).                          *)
(***************************************************************************)
C15_CallsAreNonBlocking ==
    /\ [][\A t \in Threads :
             /\ pc'[t] # pc[t] => <<pc[t], pc'[t]>> \in CallOrder
             /\ _cmarkup_unique_id' # _cmarkup_unique_id =>
                    \E u \in Threads : pc[u] = "increment" /\ pc'[u] = "ret_increment"]_vars
    /\ [](\A t \in Threads :
             /\ pc[t] = "current" => ENABLED _cmarkup_current_unique_id(t)
             /\ pc[t] = "increment" => ENABLED _cmarkup_increment_and_get_unique_id(t)
             /\ pc[t] \in {"ret_current", "ret_increment"} => ENABLED Return(t))
    /\ \A t \in Threads : []<>(pc[t] = "idle")

\* A thread is about to make its increment while every other thread is
\* inside a call of its own that has not returned, one of them an
\* increment that has made its access.
C15_Witness ==
    \E t \in Threads :
        /\ pc[t] = "increment"
        /\ \A u \in Threads \ {t} : pc[u] # "idle"
        /\ \E u \in Threads \ {t} : pc[u] = "ret_increment"

====
